---- MODULE Spec2Model ----
(***************************************************************************)
(* A model of whatsapp_to_json.py: the transcript-to-dialogue pipeline.    *)
(*                                                                         *)
(* Text is a sequence of characters, so that stripping, pattern matching,  *)
(* escaping and lengths are computed character by character as the Python  *)
(* code computes them.  A character is a one-character string; a           *)
(* character that a module cannot hold (a control character, a character   *)
(* outside ASCII) is the string that names its code point, such as         *)
(* "U+202F".  An Optional value is a                                       *)
(* sequence of length 0 (None) or 1.  A replacement string that is None    *)
(* or empty is the empty text: the code only tests its truthiness.         *)
(*                                                                         *)
(* Each function of the pipeline has its own specification, whose Init     *)
(* draws the function's arguments from bounded sets, and SpecGenerate runs *)
(* the whole of generate_conversation_json on the text of a file.          *)
(***************************************************************************)
EXTENDS Integers, Sequences, FiniteSets, TLC

VARIABLES
    pc,                 \* position in the function being run
    written,            \* history: the argument as it was given (Optional)
    line,               \* parse_whatsapp_line: its argument
    parsed,             \* parse_whatsapp_line: its return value (Optional)
    lines,              \* parse_whatsapp_chat: the lines read from the file
    current_message,    \* parse_whatsapp_chat: the open message (Optional)
    messages,           \* list of message records
    opts,               \* the scalar parameters of the function being run
    i,                  \* number of loop iterations completed
    blocks,             \* list of blocks (lists of messages)
    current_block,      \* group_by_time_gap: the block being filled
    filtered,           \* filter_single_speaker_blocks: its result
    conversations,      \* list of conversations (lists of <<key, value>>)
    result,             \* convert_to_json_format / fit_to_character_limit: result
    conversations_copy, \* fit_to_character_limit: the shuffled copy (Optional)
    json_str,           \* serialize_to_json_with_duplicate_keys: its result
    output_file         \* generate_conversation_json: the text written (Optional)

vars == <<pc, written, line, parsed, lines, current_message, messages, opts, i,
          blocks, current_block, filtered, conversations, result,
          conversations_copy, json_str, output_file>>

----------------------------------------------------------------------------
(* Bounds of the model.                                                    *)

\* Longest list of raw lines given to parse_whatsapp_chat.
MaxLines == 3
\* Longest list of messages given to group_by_time_gap.
MaxMsgs == 3
\* Timestamps of the messages: minute 0..MaxTime after 2021-12-31 23:58.
MaxTime == 3
\* Largest split_minutes given to group_by_time_gap (the least is -1).
MaxSplit == 2
\* Most messages in a list of blocks given to filter_single_speaker_blocks
\* or to convert_to_json_format.
MaxTotal == 5
\* Largest min_messages given to filter_single_speaker_blocks.
MaxMin == 3
\* Most (key, value) pairs in a list of conversations given to
\* serialize_to_json_with_duplicate_keys.
MaxPairs == 3
\* Longest list of conversations given to fit_to_character_limit.
MaxConvs == 3
\* Largest character_limit given to fit_to_character_limit (the least is 0).
MaxLimit == 345
\* Most lines of the file given to generate_conversation_json.
MaxFileLines == 4

----------------------------------------------------------------------------
(* Text helpers.                                                           *)

None == <<>>
Some(x) == <<x>>

Max(S) == CHOOSE x \in S : \A y \in S : y <= x
Min(S) == CHOOSE x \in S : \A y \in S : x <= y

\* [0-9]: the decimal digits of ASCII, in the order of their values.
AsciiDigits == <<"0", "1", "2", "3", "4", "5", "6", "7", "8", "9">>
AsciiDigit == {AsciiDigits[k] : k \in 1..10}

\* The decimal digits of Unicode (category Nd: 660 characters, in 66 runs
\* of ten), each run in the order of its digits' values.
DecimalDigits ==
    <<
      <<"0", "1", "2", "3", "4", "5", "6", "7", "8", "9">>,
      <<"U+0660", "U+0661", "U+0662", "U+0663", "U+0664",
        "U+0665", "U+0666", "U+0667", "U+0668", "U+0669">>,
      <<"U+06F0", "U+06F1", "U+06F2", "U+06F3", "U+06F4",
        "U+06F5", "U+06F6", "U+06F7", "U+06F8", "U+06F9">>,
      <<"U+07C0", "U+07C1", "U+07C2", "U+07C3", "U+07C4",
        "U+07C5", "U+07C6", "U+07C7", "U+07C8", "U+07C9">>,
      <<"U+0966", "U+0967", "U+0968", "U+0969", "U+096A",
        "U+096B", "U+096C", "U+096D", "U+096E", "U+096F">>,
      <<"U+09E6", "U+09E7", "U+09E8", "U+09E9", "U+09EA",
        "U+09EB", "U+09EC", "U+09ED", "U+09EE", "U+09EF">>,
      <<"U+0A66", "U+0A67", "U+0A68", "U+0A69", "U+0A6A",
        "U+0A6B", "U+0A6C", "U+0A6D", "U+0A6E", "U+0A6F">>,
      <<"U+0AE6", "U+0AE7", "U+0AE8", "U+0AE9", "U+0AEA",
        "U+0AEB", "U+0AEC", "U+0AED", "U+0AEE", "U+0AEF">>,
      <<"U+0B66", "U+0B67", "U+0B68", "U+0B69", "U+0B6A",
        "U+0B6B", "U+0B6C", "U+0B6D", "U+0B6E", "U+0B6F">>,
      <<"U+0BE6", "U+0BE7", "U+0BE8", "U+0BE9", "U+0BEA",
        "U+0BEB", "U+0BEC", "U+0BED", "U+0BEE", "U+0BEF">>,
      <<"U+0C66", "U+0C67", "U+0C68", "U+0C69", "U+0C6A",
        "U+0C6B", "U+0C6C", "U+0C6D", "U+0C6E", "U+0C6F">>,
      <<"U+0CE6", "U+0CE7", "U+0CE8", "U+0CE9", "U+0CEA",
        "U+0CEB", "U+0CEC", "U+0CED", "U+0CEE", "U+0CEF">>,
      <<"U+0D66", "U+0D67", "U+0D68", "U+0D69", "U+0D6A",
        "U+0D6B", "U+0D6C", "U+0D6D", "U+0D6E", "U+0D6F">>,
      <<"U+0DE6", "U+0DE7", "U+0DE8", "U+0DE9", "U+0DEA",
        "U+0DEB", "U+0DEC", "U+0DED", "U+0DEE", "U+0DEF">>,
      <<"U+0E50", "U+0E51", "U+0E52", "U+0E53", "U+0E54",
        "U+0E55", "U+0E56", "U+0E57", "U+0E58", "U+0E59">>,
      <<"U+0ED0", "U+0ED1", "U+0ED2", "U+0ED3", "U+0ED4",
        "U+0ED5", "U+0ED6", "U+0ED7", "U+0ED8", "U+0ED9">>,
      <<"U+0F20", "U+0F21", "U+0F22", "U+0F23", "U+0F24",
        "U+0F25", "U+0F26", "U+0F27", "U+0F28", "U+0F29">>,
      <<"U+1040", "U+1041", "U+1042", "U+1043", "U+1044",
        "U+1045", "U+1046", "U+1047", "U+1048", "U+1049">>,
      <<"U+1090", "U+1091", "U+1092", "U+1093", "U+1094",
        "U+1095", "U+1096", "U+1097", "U+1098", "U+1099">>,
      <<"U+17E0", "U+17E1", "U+17E2", "U+17E3", "U+17E4",
        "U+17E5", "U+17E6", "U+17E7", "U+17E8", "U+17E9">>,
      <<"U+1810", "U+1811", "U+1812", "U+1813", "U+1814",
        "U+1815", "U+1816", "U+1817", "U+1818", "U+1819">>,
      <<"U+1946", "U+1947", "U+1948", "U+1949", "U+194A",
        "U+194B", "U+194C", "U+194D", "U+194E", "U+194F">>,
      <<"U+19D0", "U+19D1", "U+19D2", "U+19D3", "U+19D4",
        "U+19D5", "U+19D6", "U+19D7", "U+19D8", "U+19D9">>,
      <<"U+1A80", "U+1A81", "U+1A82", "U+1A83", "U+1A84",
        "U+1A85", "U+1A86", "U+1A87", "U+1A88", "U+1A89">>,
      <<"U+1A90", "U+1A91", "U+1A92", "U+1A93", "U+1A94",
        "U+1A95", "U+1A96", "U+1A97", "U+1A98", "U+1A99">>,
      <<"U+1B50", "U+1B51", "U+1B52", "U+1B53", "U+1B54",
        "U+1B55", "U+1B56", "U+1B57", "U+1B58", "U+1B59">>,
      <<"U+1BB0", "U+1BB1", "U+1BB2", "U+1BB3", "U+1BB4",
        "U+1BB5", "U+1BB6", "U+1BB7", "U+1BB8", "U+1BB9">>,
      <<"U+1C40", "U+1C41", "U+1C42", "U+1C43", "U+1C44",
        "U+1C45", "U+1C46", "U+1C47", "U+1C48", "U+1C49">>,
      <<"U+1C50", "U+1C51", "U+1C52", "U+1C53", "U+1C54",
        "U+1C55", "U+1C56", "U+1C57", "U+1C58", "U+1C59">>,
      <<"U+A620", "U+A621", "U+A622", "U+A623", "U+A624",
        "U+A625", "U+A626", "U+A627", "U+A628", "U+A629">>,
      <<"U+A8D0", "U+A8D1", "U+A8D2", "U+A8D3", "U+A8D4",
        "U+A8D5", "U+A8D6", "U+A8D7", "U+A8D8", "U+A8D9">>,
      <<"U+A900", "U+A901", "U+A902", "U+A903", "U+A904",
        "U+A905", "U+A906", "U+A907", "U+A908", "U+A909">>,
      <<"U+A9D0", "U+A9D1", "U+A9D2", "U+A9D3", "U+A9D4",
        "U+A9D5", "U+A9D6", "U+A9D7", "U+A9D8", "U+A9D9">>,
      <<"U+A9F0", "U+A9F1", "U+A9F2", "U+A9F3", "U+A9F4",
        "U+A9F5", "U+A9F6", "U+A9F7", "U+A9F8", "U+A9F9">>,
      <<"U+AA50", "U+AA51", "U+AA52", "U+AA53", "U+AA54",
        "U+AA55", "U+AA56", "U+AA57", "U+AA58", "U+AA59">>,
      <<"U+ABF0", "U+ABF1", "U+ABF2", "U+ABF3", "U+ABF4",
        "U+ABF5", "U+ABF6", "U+ABF7", "U+ABF8", "U+ABF9">>,
      <<"U+FF10", "U+FF11", "U+FF12", "U+FF13", "U+FF14",
        "U+FF15", "U+FF16", "U+FF17", "U+FF18", "U+FF19">>,
      <<"U+104A0", "U+104A1", "U+104A2", "U+104A3", "U+104A4",
        "U+104A5", "U+104A6", "U+104A7", "U+104A8", "U+104A9">>,
      <<"U+10D30", "U+10D31", "U+10D32", "U+10D33", "U+10D34",
        "U+10D35", "U+10D36", "U+10D37", "U+10D38", "U+10D39">>,
      <<"U+11066", "U+11067", "U+11068", "U+11069", "U+1106A",
        "U+1106B", "U+1106C", "U+1106D", "U+1106E", "U+1106F">>,
      <<"U+110F0", "U+110F1", "U+110F2", "U+110F3", "U+110F4",
        "U+110F5", "U+110F6", "U+110F7", "U+110F8", "U+110F9">>,
      <<"U+11136", "U+11137", "U+11138", "U+11139", "U+1113A",
        "U+1113B", "U+1113C", "U+1113D", "U+1113E", "U+1113F">>,
      <<"U+111D0", "U+111D1", "U+111D2", "U+111D3", "U+111D4",
        "U+111D5", "U+111D6", "U+111D7", "U+111D8", "U+111D9">>,
      <<"U+112F0", "U+112F1", "U+112F2", "U+112F3", "U+112F4",
        "U+112F5", "U+112F6", "U+112F7", "U+112F8", "U+112F9">>,
      <<"U+11450", "U+11451", "U+11452", "U+11453", "U+11454",
        "U+11455", "U+11456", "U+11457", "U+11458", "U+11459">>,
      <<"U+114D0", "U+114D1", "U+114D2", "U+114D3", "U+114D4",
        "U+114D5", "U+114D6", "U+114D7", "U+114D8", "U+114D9">>,
      <<"U+11650", "U+11651", "U+11652", "U+11653", "U+11654",
        "U+11655", "U+11656", "U+11657", "U+11658", "U+11659">>,
      <<"U+116C0", "U+116C1", "U+116C2", "U+116C3", "U+116C4",
        "U+116C5", "U+116C6", "U+116C7", "U+116C8", "U+116C9">>,
      <<"U+11730", "U+11731", "U+11732", "U+11733", "U+11734",
        "U+11735", "U+11736", "U+11737", "U+11738", "U+11739">>,
      <<"U+118E0", "U+118E1", "U+118E2", "U+118E3", "U+118E4",
        "U+118E5", "U+118E6", "U+118E7", "U+118E8", "U+118E9">>,
      <<"U+11950", "U+11951", "U+11952", "U+11953", "U+11954",
        "U+11955", "U+11956", "U+11957", "U+11958", "U+11959">>,
      <<"U+11C50", "U+11C51", "U+11C52", "U+11C53", "U+11C54",
        "U+11C55", "U+11C56", "U+11C57", "U+11C58", "U+11C59">>,
      <<"U+11D50", "U+11D51", "U+11D52", "U+11D53", "U+11D54",
        "U+11D55", "U+11D56", "U+11D57", "U+11D58", "U+11D59">>,
      <<"U+11DA0", "U+11DA1", "U+11DA2", "U+11DA3", "U+11DA4",
        "U+11DA5", "U+11DA6", "U+11DA7", "U+11DA8", "U+11DA9">>,
      <<"U+16A60", "U+16A61", "U+16A62", "U+16A63", "U+16A64",
        "U+16A65", "U+16A66", "U+16A67", "U+16A68", "U+16A69">>,
      <<"U+16AC0", "U+16AC1", "U+16AC2", "U+16AC3", "U+16AC4",
        "U+16AC5", "U+16AC6", "U+16AC7", "U+16AC8", "U+16AC9">>,
      <<"U+16B50", "U+16B51", "U+16B52", "U+16B53", "U+16B54",
        "U+16B55", "U+16B56", "U+16B57", "U+16B58", "U+16B59">>,
      <<"U+1D7CE", "U+1D7CF", "U+1D7D0", "U+1D7D1", "U+1D7D2",
        "U+1D7D3", "U+1D7D4", "U+1D7D5", "U+1D7D6", "U+1D7D7">>,
      <<"U+1D7D8", "U+1D7D9", "U+1D7DA", "U+1D7DB", "U+1D7DC",
        "U+1D7DD", "U+1D7DE", "U+1D7DF", "U+1D7E0", "U+1D7E1">>,
      <<"U+1D7E2", "U+1D7E3", "U+1D7E4", "U+1D7E5", "U+1D7E6",
        "U+1D7E7", "U+1D7E8", "U+1D7E9", "U+1D7EA", "U+1D7EB">>,
      <<"U+1D7EC", "U+1D7ED", "U+1D7EE", "U+1D7EF", "U+1D7F0",
        "U+1D7F1", "U+1D7F2", "U+1D7F3", "U+1D7F4", "U+1D7F5">>,
      <<"U+1D7F6", "U+1D7F7", "U+1D7F8", "U+1D7F9", "U+1D7FA",
        "U+1D7FB", "U+1D7FC", "U+1D7FD", "U+1D7FE", "U+1D7FF">>,
      <<"U+1E140", "U+1E141", "U+1E142", "U+1E143", "U+1E144",
        "U+1E145", "U+1E146", "U+1E147", "U+1E148", "U+1E149">>,
      <<"U+1E2F0", "U+1E2F1", "U+1E2F2", "U+1E2F3", "U+1E2F4",
        "U+1E2F5", "U+1E2F6", "U+1E2F7", "U+1E2F8", "U+1E2F9">>,
      <<"U+1E950", "U+1E951", "U+1E952", "U+1E953", "U+1E954",
        "U+1E955", "U+1E956", "U+1E957", "U+1E958", "U+1E959">>,
      <<"U+1FBF0", "U+1FBF1", "U+1FBF2", "U+1FBF3", "U+1FBF4",
        "U+1FBF5", "U+1FBF6", "U+1FBF7", "U+1FBF8", "U+1FBF9">>
    >>

\* \d of a str pattern: every decimal digit of Unicode.
Digit == {DecimalDigits[r][k] : r \in 1..Len(DecimalDigits), k \in 1..10}

\* The characters \s of a str pattern and str.strip() treat as whitespace:
\* those for which str.isspace() holds.
Whitespace ==
    {" ", "\t", "\n", "\r", "\f", "U+000B", "U+001C", "U+001D", "U+001E", "U+001F",
     "U+0085", "U+00A0", "U+1680", "U+2000", "U+2001", "U+2002", "U+2003",
     "U+2004", "U+2005", "U+2006", "U+2007", "U+2008", "U+2009", "U+200A",
     "U+2028", "U+2029", "U+202F", "U+205F", "U+3000"}

\* s[p], or the empty string (equal to no character) past either end.
At(s, p) == IF p \in 1..Len(s) THEN s[p] ELSE ""

\* Length of the longest run of characters of class Cls that starts at p.
RunLen(s, p, Cls) ==
    Max({k \in 0..(Len(s) + 1 - p) : \A j \in p..(p + k - 1) : s[j] \in Cls})

\* str.strip(): s without its leading and trailing whitespace.
Strip(s) ==
    LET keep == {j \in 1..Len(s) : s[j] \notin Whitespace}
    IN  IF keep = {} THEN <<>> ELSE SubSeq(s, Min(keep), Max(keep))

\* int() of a run of decimal digits, of ASCII or not.
DigitValues ==
    [c \in Digit |->
        CHOOSE v \in 0..9 : \E r \in 1..Len(DecimalDigits) : DecimalDigits[r][v + 1] = c]
DigitValue(c) == DigitValues[c]
RECURSIVE ToInt(_)
ToInt(ds) ==
    IF ds = <<>> THEN 0
    ELSE 10 * ToInt(SubSeq(ds, 1, Len(ds) - 1)) + DigitValue(ds[Len(ds)])

\* Concatenation of a list of texts.
RECURSIVE Concat(_)
Concat(ts) == IF ts = <<>> THEN <<>> ELSE Head(ts) \o Concat(Tail(ts))

----------------------------------------------------------------------------
(* parse_whatsapp_line.                                                    *)

\* The matcher reads the line from left to right; its state is None (no
\* match) or Some([p |-> next position, g |-> the texts captured so far]).
\* Each piece of the pattern is matched without backtracking, which is
\* exact here: the piece after each repetition starts with a character the
\* repetition cannot take (except after \s+-\s+, see TakeUsername).

\* \d{lo,hi}: a run of lo to hi digits, captured.  A longer run fails:
\* whatever part of it \d{lo,hi} takes, a digit follows, and the pattern
\* continues with a character that is no digit.
TakeDigits(s, st, lo, hi) ==
    IF st = None THEN None ELSE
    LET k == RunLen(s, st[1].p, Digit)
    IN  IF k >= lo /\ k <= hi
        THEN Some([p |-> st[1].p + k,
                   g |-> Append(st[1].g, SubSeq(s, st[1].p, st[1].p + k - 1))])
        ELSE None

\* One literal character out of a set, captured.
TakeOneOf(s, st, cs) ==
    IF st = None THEN None ELSE
    IF At(s, st[1].p) \in cs
    THEN Some([p |-> st[1].p + 1, g |-> Append(st[1].g, <<s[st[1].p]>>)])
    ELSE None

\* One literal character.
SkipChar(s, st, c) ==
    IF st = None THEN None ELSE
    IF At(s, st[1].p) = c THEN Some([st[1] EXCEPT !.p = @ + 1]) ELSE None

\* \s+: a run of at least one whitespace character.
SkipSpaces(s, st) ==
    IF st = None THEN None ELSE
    LET k == RunLen(s, st[1].p, Whitespace)
    IN  IF k >= 1 THEN Some([st[1] EXCEPT !.p = @ + k]) ELSE None

\* \s+([^:]+): after the dash: the whitespace, then everything up to the
\* first colon, captured; it is at least one character.  \s+ is greedy, and
\* gives one character back when the colon follows the whitespace directly.
TakeUsername(s, st) ==
    IF st = None THEN None ELSE
    LET k == RunLen(s, st[1].p, Whitespace)
        colons == {c \in st[1].p..Len(s) : s[c] = ":"}
    IN  IF k = 0 \/ colons = {} THEN None ELSE
        LET pC == Min(colons)
            pU == IF pC > st[1].p + k THEN st[1].p + k ELSE st[1].p + k - 1
        IN  IF pU <= st[1].p THEN None
            ELSE Some([p |-> pC, g |-> Append(st[1].g, SubSeq(s, pU, pC - 1))])

\* (.*)$: the rest of the text up to its first line break, captured ('.'
\* takes no line break); '$' holds at the end of the text and before a
\* line break that ends the text.
TakeRest(s, st) ==
    IF st = None THEN None ELSE
    LET k == RunLen(s, st[1].p, {s[j] : j \in 1..Len(s)} \ {"\n"})
        e == st[1].p + k
    IN  IF e = Len(s) + 1 \/ (e = Len(s) /\ s[e] = "\n")
        THEN Some([p |-> Len(s) + 1, g |-> Append(st[1].g, SubSeq(s, st[1].p, e - 1))])
        ELSE None

\* ^(\d{1,2}/\d{1,2}/\d{2,4},\s+\d{1,2}:\d{2}\s+[AP]M)
MatchDate(s) ==
    TakeDigits(s,
        SkipChar(s, TakeDigits(s,
            SkipChar(s, TakeDigits(s, Some([p |-> 1, g |-> <<>>]), 1, 2), "/"),
            1, 2), "/"),
        2, 4)
MatchTime(s) ==
    SkipChar(s,
        TakeOneOf(s,
            SkipSpaces(s, TakeDigits(s,
                SkipChar(s, TakeDigits(s,
                    SkipSpaces(s, SkipChar(s, MatchDate(s), ",")),
                    1, 2), ":"),
                2, 2)),
            {"A", "P"}),
        "M")

\* re.match(pattern, line) for the pattern of parse_whatsapp_line (line 14):
\*   ^(\d{1,2}/\d{1,2}/\d{2,4},\s+\d{1,2}:\d{2}\s+[AP]M)\s+-\s+([^:]+):\s+(.*)$
\* None, or the digit runs and the marker of group 1, group 2 and group 3.
MatchPattern(s) ==
    LET m == TakeRest(s,
                 SkipSpaces(s, SkipChar(s,
                     TakeUsername(s, SkipChar(s, SkipSpaces(s, MatchTime(s)), "-")),
                     ":")))
    IN  IF m = None THEN None
        ELSE Some([month |-> m[1].g[1], day |-> m[1].g[2], year |-> m[1].g[3],
                   hour |-> m[1].g[4], minute |-> m[1].g[5],
                   marker |-> m[1].g[6][1],
                   username |-> m[1].g[7], message |-> m[1].g[8]])

\* calendar: the number of days of a month.
IsLeap(y) == (y % 4 = 0 /\ y % 100 # 0) \/ y % 400 = 0
DaysInMonth(y, m) ==
    IF m = 2 THEN (IF IsLeap(y) THEN 29 ELSE 28)
    ELSE IF m \in {4, 6, 9, 11} THEN 30 ELSE 31

\* The patterns strptime reads the fields with; [0-9] and the like are
\* digits of ASCII, \d is any digit.
\*   %m and %I: 1[0-2]|0[1-9]|[1-9]
MonthOrHourField(f) ==
    \/ Len(f) = 1 /\ f[1] \in AsciiDigit \ {"0"}
    \/ Len(f) = 2 /\ f[1] = "1" /\ f[2] \in {"0", "1", "2"}
    \/ Len(f) = 2 /\ f[1] = "0" /\ f[2] \in AsciiDigit \ {"0"}
\*   %d: 3[01]|[12]\d|0[1-9]|[1-9]
DayField(f) ==
    \/ Len(f) = 1 /\ f[1] \in AsciiDigit \ {"0"}
    \/ Len(f) = 2 /\ f[1] = "3" /\ f[2] \in {"0", "1"}
    \/ Len(f) = 2 /\ f[1] \in {"1", "2"} /\ f[2] \in Digit
    \/ Len(f) = 2 /\ f[1] = "0" /\ f[2] \in AsciiDigit \ {"0"}
\*   %y: \d\d
YearField(f) == Len(f) = 2
\*   %M: [0-5]\d|\d, on the two digits the pattern of line 14 has matched
MinuteField(f) == f[1] \in {"0", "1", "2", "3", "4", "5"}

\* datetime.strptime(timestamp_str, '%m/%d/%y, %I:%M %p') on group 1 of a
\* match: the timestamp, or None where strptime raises ValueError.  Each
\* field must match its pattern as a whole (a literal follows it); the
\* whitespace of the format is \s+, as in the pattern of line 14; a year
\* 69..99 is 19xx and 00..68 is 20xx; the day must exist in the month.
Strptime(g) ==
    LET mo == ToInt(g.month)
        da == ToInt(g.day)
        yy == ToInt(g.year)
        ho == ToInt(g.hour)
        mi == ToInt(g.minute)
        year == IF yy >= 69 THEN 1900 + yy ELSE 2000 + yy
        hour == IF g.marker = "A" THEN (IF ho = 12 THEN 0 ELSE ho)
                ELSE (IF ho = 12 THEN 12 ELSE ho + 12)
    IN  IF /\ MonthOrHourField(g.month)
           /\ DayField(g.day)
           /\ YearField(g.year)
           /\ MonthOrHourField(g.hour)
           /\ MinuteField(g.minute)
           /\ da <= DaysInMonth(year, mo)
        THEN Some([year |-> year, month |-> mo, day |-> da,
                   hour |-> hour, minute |-> mi])
        ELSE None

\* parse_whatsapp_line(line): Some(record) or None.
parse_whatsapp_line(s) ==
    LET m == MatchPattern(s)
    IN  IF m = None THEN None ELSE
        LET t == Strptime(m[1])
        IN  IF t = None THEN None
            ELSE Some([timestamp |-> t[1],
                       username |-> Strip(m[1].username),
                       message |-> Strip(m[1].message)])

----------------------------------------------------------------------------
(* Values of the variables a specification does not use.                   *)

IdleLine  == written = None /\ line = <<>> /\ parsed = None
IdleChat  == lines = <<>> /\ current_message = None
IdleGroup == current_block = <<>>
IdleFilter == filtered = <<>>
IdleFit   == result = <<>> /\ conversations_copy = None
IdleJson  == json_str = <<>> /\ output_file = None

----------------------------------------------------------------------------
(* SpecLine: parse_whatsapp_line on one header line.                       *)

\* Header fields a line is written from.  Months, days, hours and minutes
\* include values no calendar or clock has; years are written with 2, 3
\* and 4 digits; some fields are written with digits outside ASCII; the
\* time and the marker are separated by a space or by U+202F (NARROW
\* NO-BREAK SPACE); a text ends with a form feed.
WrittenFields ==
    [month   : {<<"2">>, <<"0", "2">>, <<"1", "2">>, <<"1", "3">>, <<"U+0662">>},
     day     : {<<"9">>, <<"2", "9">>, <<"3", "0">>, <<"3", "1">>, <<"2", "U+096F">>},
     year    : {<<"2", "1">>, <<"2", "4">>, <<"2", "0", "2", "1">>,
                <<"2", "0", "2", "4">>, <<"0", "2", "1">>, <<"2", "U+0661">>},
     hour    : {<<"1">>, <<"1", "2">>, <<"0">>, <<"1", "3">>},
     minute  : {<<"0", "5">>, <<"5", "9">>, <<"6", "0">>, <<"0", "U+FF15">>},
     space   : {" ", "U+202F"},
     marker  : {"A", "P"},
     speaker : {<<"B", "o", "b">>, <<"A", "l", " ", "B">>},
     text    : {<<"h", "i">>, <<"a", ":", " ", "b">>, <<" ", "x", "\f">>}]

\* The line '<month>/<day>/<year>, <hour>:<minute> <AM|PM> - <speaker>: <text>'.
Render(w) ==
    w.month \o <<"/">> \o w.day \o <<"/">> \o w.year \o <<",", " ">>
    \o w.hour \o <<":">> \o w.minute \o <<w.space, w.marker, "M">>
    \o <<" ", "-", " ">> \o w.speaker \o <<":", " ">> \o w.text

InitLine ==
    /\ pc = "line"
    /\ written \in {Some(w) : w \in WrittenFields}
    /\ line = Render(written[1])
    /\ parsed = None
    /\ IdleChat /\ IdleGroup /\ IdleFilter /\ IdleFit /\ IdleJson
    /\ messages = <<>> /\ opts = <<>> /\ i = 0 /\ blocks = <<>>
    /\ conversations = <<>>

ParseLine ==
    /\ pc = "line"
    /\ parsed' = parse_whatsapp_line(line)
    /\ pc' = "line_done"
    /\ UNCHANGED <<written, line, lines, current_message, messages, opts, i,
                   blocks, current_block, filtered, conversations, result,
                   conversations_copy, json_str, output_file>>

NextLine == ParseLine

SpecLine == InitLine /\ [][NextLine]_vars

\* The date and time a header is written with: a 4-digit year is itself,
\* a 2-digit year yy is 20yy (the years written here are below 69).
WrittenYear(w) == IF Len(w.year) = 4 THEN ToInt(w.year) ELSE 2000 + ToInt(w.year)
WrittenHour(w) ==
    IF w.marker = "A" THEN (IF ToInt(w.hour) = 12 THEN 0 ELSE ToInt(w.hour))
    ELSE (IF ToInt(w.hour) = 12 THEN 12 ELSE ToInt(w.hour) + 12)
WrittenTimestamp(w) ==
    [year |-> WrittenYear(w), month |-> ToInt(w.month), day |-> ToInt(w.day),
     hour |-> WrittenHour(w), minute |-> ToInt(w.minute)]

\* A header whose numbers are all written with the digits of ASCII.
AsciiWritten(w) ==
    \A f \in {w.month, w.day, w.year, w.hour, w.minute} :
       \A k \in 1..Len(f) : f[k] \in AsciiDigit

\* A header of the format: a date of the calendar, a time of the 12-hour
\* clock, a year of 2 or 4 digits.
ValidHeader(w) ==
    /\ AsciiWritten(w)
    /\ Len(w.year) \in {2, 4}
    /\ ToInt(w.month) \in 1..12
    /\ ToInt(w.day) \in 1..DaysInMonth(WrittenYear(w), ToInt(w.month))
    /\ ToInt(w.hour) \in 1..12
    /\ ToInt(w.minute) \in 0..59

RecoversHeader(w) ==
    /\ parsed # None
    /\ parsed[1] = [timestamp |-> WrittenTimestamp(w),
                    username |-> Strip(w.speaker),
                    message |-> Strip(w.text)]

\* C8: every valid header line, its year written with 2 or 4 digits, is
\* parsed to a record holding the stripped speaker and text and the
\* timestamp written in the line.
C8_ValidHeaderParsed ==
    (pc = "line_done" /\ ValidHeader(written[1])) => RecoversHeader(written[1])

\* What the code does: the valid headers with a 2-digit year are recovered,
\* and every header with a 3- or 4-digit year is rejected.
C8_TwoDigitYearOnly ==
    pc = "line_done" =>
        /\ (ValidHeader(written[1]) /\ Len(written[1].year) = 2)
               => RecoversHeader(written[1])
        /\ Len(written[1].year) # 2 => parsed = None
        /\ (AsciiWritten(written[1]) /\ ~ValidHeader(written[1])) => parsed = None

----------------------------------------------------------------------------
(* SpecChat: parse_whatsapp_chat on the lines of a file.                   *)

\* The sequences over S of length at most n.
BoundedSeq(S, n) == UNION {[1..k -> S] : k \in 0..n}

\* Lines of a transcript, without their line break: two headers, a header
\* with a day its month does not have, a continuation with surrounding
\* whitespace, an empty line, a line of spaces, and a text with a carriage
\* return in it.
LineSamples ==
    {<<"1", "/", "2", "/", "2", "1", ",", " ", "1", ":", "0", "5", " ", "P", "M",
       " ", "-", " ", "A", ":", " ", "h", "i">>,
     <<"1", "/", "2", "/", "2", "1", ",", " ", "1", ":", "0", "6", " ", "P", "M",
       " ", "-", " ", "B", ":", " ", "y", "o">>,
     <<"2", "/", "3", "0", "/", "2", "1", ",", " ", "1", ":", "0", "7", " ", "P", "M",
       " ", "-", " ", "A", ":", " ", "n", "o">>,
     <<" ", "m", "o", "r", "e", " ">>,
     <<>>,
     <<" ", " ">>,
     <<"a", "\r", "b">>}

\* The text of a file written from lines: a line break after each line,
\* after the last one only when the file ends with one.
FileText(ls, final_newline) ==
    Concat([j \in 1..Len(ls) |->
        IF j < Len(ls) \/ final_newline THEN ls[j] \o <<"\n">> ELSE ls[j]])

\* open(file_path, 'r'): a file read as text has each of '\r\n' and '\r'
\* translated to '\n'.
UniversalNewlines(t) ==
    SelectSeq([j \in 1..Len(t) |->
                  IF t[j] # "\r" THEN t[j]
                  ELSE IF At(t, j + 1) = "\n" THEN "" ELSE "\n"],
              LAMBDA c : c # "")

\* The text cut after each line break; an empty text has no lines.
RECURSIVE KeepEnds(_)
KeepEnds(t) ==
    LET breaks == {p \in 1..Len(t) : t[p] = "\n"}
    IN  IF t = <<>> THEN <<>>
        ELSE IF breaks = {} THEN <<t>>
        ELSE <<SubSeq(t, 1, Min(breaks))>> \o KeepEnds(SubSeq(t, Min(breaks) + 1, Len(t)))

\* f.readlines() on the file: every line ends with its line break, the
\* last one only when the file ends with one.
ReadLines(text) == KeepEnds(UniversalNewlines(text))

\* line.rstrip('\n'): the line without its trailing line breaks.
RstripNewline(s) ==
    LET keep == {j \in 1..Len(s) : s[j] # "\n"}
    IN  IF keep = {} THEN <<>> ELSE SubSeq(s, 1, Max(keep))

\* Lines 57-58: the open message with a continuation line appended.
ContinueNoSpace(cm, l) == [cm EXCEPT !.message = @ \o Strip(l)]
ContinueMessage(cm, l) == [cm EXCEPT !.message = @ \o <<" ">> \o Strip(l)]

InitChat ==
    /\ pc = "chat"
    /\ \E ls \in BoundedSeq(LineSamples, MaxLines), nl \in BOOLEAN :
          written = Some(FileText(ls, nl))
    /\ lines = ReadLines(written[1])
    /\ current_message = None
    /\ messages = <<>>
    /\ i = 0
    /\ line = <<>> /\ parsed = None
    /\ IdleGroup /\ IdleFilter /\ IdleFit /\ IdleJson
    /\ opts = <<>> /\ blocks = <<>> /\ conversations = <<>>

\* One iteration of the loop over the lines (lines 44-58).
ReadLine ==
    /\ pc = "chat"
    /\ i < Len(lines)
    /\ LET l == RstripNewline(lines[i + 1])
           p == parse_whatsapp_line(l)
       IN  /\ line' = l
           /\ parsed' = p
           /\ IF p # None
              THEN /\ messages' = IF current_message # None
                                  THEN Append(messages, current_message[1])
                                  ELSE messages
                   /\ current_message' = p
              ELSE /\ messages' = messages
                   /\ current_message' =
                        IF current_message # None /\ Strip(l) # <<>>
                        THEN Some(ContinueMessage(current_message[1], l))
                        ELSE current_message
    /\ i' = i + 1
    /\ UNCHANGED <<pc, written, lines, opts, blocks, current_block, filtered,
                   conversations, result, conversations_copy, json_str, output_file>>

\* After the loop (lines 60-64): the last open message is added.
FlushChat ==
    /\ pc = "chat"
    /\ i = Len(lines)
    /\ messages' = IF current_message # None
                   THEN Append(messages, current_message[1])
                   ELSE messages
    /\ pc' = "chat_done"
    /\ UNCHANGED <<written, line, parsed, lines, current_message, opts, i,
                   blocks, current_block, filtered, conversations, result,
                   conversations_copy, json_str, output_file>>

NextChat == ReadLine \/ FlushChat

SpecChat == InitChat /\ [][NextChat]_vars

\* The lines the Line Parser accepts, and for an accepted line a the lines
\* that follow it up to the next accepted line.
Accepted(j) == parse_whatsapp_line(RstripNewline(lines[j])) # None
AcceptedLines == {j \in 1..Len(lines) : Accepted(j)}
Followers(a) ==
    {j \in (a + 1)..Len(lines) : \A k \in (a + 1)..j : ~Accepted(k)}

\* The texts of a set of lines in line order, each non-blank one as a space
\* and the trimmed line, each blank one as nothing.
RECURSIVE Continuations(_)
Continuations(J) ==
    IF J = {} THEN <<>>
    ELSE LET j == Min(J)
             t == Strip(RstripNewline(lines[j]))
         IN  (IF t = <<>> THEN <<>> ELSE <<" ">> \o t) \o Continuations(J \ {j})

\* C7: the Assembler emits one Message per accepted line, in line order,
\* whose text is the header's text followed by one space and the trimmed
\* line for each non-blank rejected line up to the next accepted line;
\* rejected lines before the first accepted line leave no trace, and the
\* last open Message is flushed.
C7_AssemblerMessages ==
    pc = "chat_done" =>
        /\ Len(messages) = Cardinality(AcceptedLines)
        /\ \A k \in 1..Len(messages) :
              \E a \in AcceptedLines :
                 /\ Cardinality({b \in AcceptedLines : b <= a}) = k
                 /\ LET h == parse_whatsapp_line(RstripNewline(lines[a]))[1]
                    IN  messages[k] =
                          [h EXCEPT !.message = @ \o Continuations(Followers(a))]

\* A file whose first line is rejected and dropped, and whose last Message
\* has a continuation.
C7_Witness ==
    /\ pc = "chat_done"
    /\ Len(lines) = 3 /\ AcceptedLines = {2}
    /\ Continuations({1}) # <<>>
    /\ Continuations({3}) # <<>>
    /\ Len(messages) = 1

----------------------------------------------------------------------------
(* contains_link and group_by_time_gap.                                    *)

Lower == {"a", "b", "c", "d", "e", "f", "g", "h", "i", "j", "k", "l", "m",
          "n", "o", "p", "q", "r", "s", "t", "u", "v", "w", "x", "y", "z"}
Upper == {"A", "B", "C", "D", "E", "F", "G", "H", "I", "J", "K", "L", "M",
          "N", "O", "P", "Q", "R", "S", "T", "U", "V", "W", "X", "Y", "Z"}

\* The characters one repetition of the URL pattern takes:
\*   [a-zA-Z] | [0-9] | [$-_@.&+] | [!*\\(\\),] | %[0-9a-fA-F][0-9a-fA-F]
\* where [$-_] is the range from '$' to '_', which holds '%' as well.
UrlChar ==
    Lower \cup Upper \cup AsciiDigit
    \cup {"$", "%", "&", "'", "(", ")", "*", "+", ",", "-", ".", "/", ":", ";",
          "<", "=", ">", "?", "@", "[", "\\", "]", "^", "_"}
    \cup {"@", ".", "&", "+"} \cup {"!", "*", "\\", "(", ")", ","}

\* s holds sub at position p.
StartsAt(s, p, sub) ==
    /\ p >= 1 /\ p + Len(sub) - 1 <= Len(s)
    /\ SubSeq(s, p, p + Len(sub) - 1) = sub

\* sub in s: s holds sub as a substring.
Contains(s, sub) == \E p \in 1..Len(s) : StartsAt(s, p, sub)

MediaMarker ==
    <<"<", "M", "e", "d", "i", "a", " ", "o", "m", "i", "t", "t", "e", "d", ">">>

\* contains_link(message): re.search of 'http[s]?://(...)+': the scheme,
\* followed by at least one URL character.
contains_link(s) ==
    \E p \in 1..Len(s) :
       \/ /\ StartsAt(s, p, <<"h", "t", "t", "p", ":", "/", "/">>)
          /\ At(s, p + 7) \in UrlChar
       \/ /\ StartsAt(s, p, <<"h", "t", "t", "p", "s", ":", "/", "/">>)
          /\ At(s, p + 8) \in UrlChar

\* datetime arithmetic: the minutes from 0001-01-01 00:00 to a timestamp.
RECURSIVE DaysBeforeMonth(_, _)
DaysBeforeMonth(y, m) ==
    IF m = 1 THEN 0 ELSE DaysBeforeMonth(y, m - 1) + DaysInMonth(y, m - 1)
DaysBeforeYear(y) ==
    365 * (y - 1) + ((y - 1) \div 4) - ((y - 1) \div 100) + ((y - 1) \div 400)
Minutes(t) ==
    ((DaysBeforeYear(t.year) + DaysBeforeMonth(t.year, t.month) + (t.day - 1)) * 24
      + t.hour) * 60 + t.minute

\* The sanitizing steps of the loop body (lines 89-108) on one message:
\* [keep |-> whether the message goes on, msg |-> the message as it is
\* after the step] (the code rewrites msg['message'] in place).
MediaStep(msg, o) ==
    IF Contains(msg.message, MediaMarker)
    THEN IF o.filter_media THEN [keep |-> FALSE, msg |-> msg]
         ELSE IF o.media_replacement # <<>>
              THEN [keep |-> TRUE, msg |-> [msg EXCEPT !.message = o.media_replacement]]
              ELSE [keep |-> TRUE, msg |-> msg]
    ELSE [keep |-> TRUE, msg |-> msg]

LinkStep(r, o) ==
    IF r.keep /\ contains_link(r.msg.message)
    THEN IF o.filter_links THEN [keep |-> FALSE, msg |-> r.msg]
         ELSE IF o.link_replacement # <<>>
              THEN [keep |-> TRUE, msg |-> [r.msg EXCEPT !.message = o.link_replacement]]
              ELSE r
    ELSE r

EmptyStep(r) ==
    IF r.keep /\ Strip(r.msg.message) = <<>> THEN [keep |-> FALSE, msg |-> r.msg] ELSE r

\* message.replace('\n', ' ').replace('\r', ' ')
ReplaceNewlines(s) ==
    [j \in 1..Len(s) |-> IF s[j] \in {"\n", "\r"} THEN " " ELSE s[j]]

NewlineStep(r) ==
    IF r.keep THEN [keep |-> TRUE, msg |-> [r.msg EXCEPT !.message = ReplaceNewlines(@)]]
    ELSE r

Sanitize(msg, o) == NewlineStep(EmptyStep(LinkStep(MediaStep(msg, o), o)))

\* Line 117: whether a message opens a new block.
SplitsAtEqual(time_diff, split_minutes) == time_diff >= split_minutes
Splits(time_diff, split_minutes) == time_diff > split_minutes

\* Lines 110-122: <<blocks, current_block>> after a kept message.
AddToBlocks(bs, cb, msg, split_minutes) ==
    IF cb = <<>> THEN <<bs, <<msg>>>>
    ELSE IF Splits(Minutes(msg.timestamp) - Minutes(cb[Len(cb)].timestamp),
                   split_minutes)
         THEN <<Append(bs, cb), <<msg>>>>
         ELSE <<bs, Append(cb, msg)>>

\* Lines 82-83: no messages, no blocks.
GroupNothing ==
    /\ pc = "group"
    /\ messages = <<>>
    /\ pc' = "group_done"
    /\ UNCHANGED <<written, line, parsed, lines, current_message, messages,
                   opts, i, blocks, current_block, filtered, conversations,
                   result, conversations_copy, json_str, output_file>>

\* One iteration of the loop over the messages (lines 88-122).
GroupStep ==
    /\ pc = "group"
    /\ i < Len(messages)
    /\ LET r == Sanitize(messages[i + 1], opts)
           b == AddToBlocks(blocks, current_block, r.msg, opts.split_minutes)
       IN  /\ messages' = [messages EXCEPT ![i + 1] = r.msg]
           /\ blocks' = IF r.keep THEN b[1] ELSE blocks
           /\ current_block' = IF r.keep THEN b[2] ELSE current_block
    /\ i' = i + 1
    /\ UNCHANGED <<pc, written, line, parsed, lines, current_message, opts,
                   filtered, conversations, result, conversations_copy, json_str,
                   output_file>>

\* After the loop (lines 124-128): the last block is added.
GroupFlush ==
    /\ pc = "group"
    /\ messages # <<>>
    /\ i = Len(messages)
    /\ blocks' = IF current_block # <<>> THEN Append(blocks, current_block) ELSE blocks
    /\ pc' = "group_done"
    /\ UNCHANGED <<written, line, parsed, lines, current_message, messages,
                   opts, i, current_block, filtered, conversations, result,
                   conversations_copy, json_str, output_file>>

NextGroup == GroupNothing \/ GroupStep \/ GroupFlush

\* The timestamp k minutes after 2021-12-31 23:58.
Clock(k) ==
    IF 58 + k < 60
    THEN [year |-> 2021, month |-> 12, day |-> 31, hour |-> 23, minute |-> 58 + k]
    ELSE [year |-> 2022, month |-> 1, day |-> 1, hour |-> 0, minute |-> k - 2]

InitGroup(Msgs, Opts) ==
    /\ pc = "group"
    /\ messages \in BoundedSeq(Msgs, MaxMsgs)
    /\ written = Some(messages)
    /\ opts \in Opts
    /\ i = 0
    /\ blocks = <<>>
    /\ current_block = <<>>
    /\ line = <<>> /\ parsed = None
    /\ IdleChat /\ IdleFilter /\ IdleFit /\ IdleJson
    /\ conversations = <<>>

----------------------------------------------------------------------------
(* SpecSegment: group_by_time_gap on messages in any order of time, some   *)
(* of them media messages that are filtered out.                           *)

SegmentMessages ==
    [timestamp : {Clock(k) : k \in 0..MaxTime},
     username  : {<<"A">>},
     message   : {<<"h", "i">>, MediaMarker}]

SegmentOpts ==
    [split_minutes : (-1)..MaxSplit, filter_media : {TRUE}, filter_links : {FALSE},
     media_replacement : {<<>>}, link_replacement : {<<>>}]

InitSegment == InitGroup(SegmentMessages, SegmentOpts)

SpecSegment == InitSegment /\ [][NextGroup]_vars

\* The minutes from message a to message b.
Elapsed(a, b) == Minutes(b.timestamp) - Minutes(a.timestamp)

\* C4: every block is non-empty; inside a block each message comes at most
\* split_minutes after the one before it; the first message of a block
\* comes more than split_minutes after the last message of the block
\* before it (a gap of exactly split_minutes does not split).
C4_BlockGaps ==
    pc = "group_done" =>
        /\ \A b \in 1..Len(blocks) :
              /\ blocks[b] # <<>>
              /\ \A k \in 1..(Len(blocks[b]) - 1) :
                    Elapsed(blocks[b][k], blocks[b][k + 1]) <= opts.split_minutes
        /\ \A b \in 1..(Len(blocks) - 1) :
              Elapsed(blocks[b][Len(blocks[b])], blocks[b + 1][1]) > opts.split_minutes

\* Two blocks: the first holds a gap of exactly split_minutes, and the
\* second starts split_minutes + 1 after it.
C4_Witness ==
    /\ pc = "group_done"
    /\ Len(blocks) = 2
    /\ Len(blocks[1]) = 2
    /\ opts.split_minutes > 0
    /\ Elapsed(blocks[1][1], blocks[1][2]) = opts.split_minutes
    /\ Elapsed(blocks[1][2], blocks[2][1]) = opts.split_minutes + 1

----------------------------------------------------------------------------
(* SpecSanitize: group_by_time_gap under every media and link policy, on   *)
(* messages with a media marker, a URL, both or neither.                   *)

Url == <<"h", "t", "t", "p", ":", "/", "/", "x">>
MediaReplacement == <<"<", "a", "t", "t", ">">>
LinkReplacement == <<"<", "l", "n", "k", ">">>

SanitizeMessages ==
    [timestamp : {Clock(0)},
     username  : {<<"A">>},
     message   : {<<"h", "i">>, MediaMarker, Url, MediaMarker \o <<" ">> \o Url}]

SanitizeOpts ==
    [split_minutes : {0}, filter_media : BOOLEAN, filter_links : BOOLEAN,
     media_replacement : {<<>>, MediaReplacement},
     link_replacement : {<<>>, LinkReplacement}]

InitSanitize == InitGroup(SanitizeMessages, SanitizeOpts)

SpecSanitize == InitSanitize /\ [][NextGroup]_vars

\* The number of messages kept so far, and the last of them.
KeptCount(bs, cb) == Len(Concat(bs)) + Len(cb)

\* The loop body is about to run on a message whose original body holds
\* both the media marker and a URL.
AtMediaAndLink ==
    /\ pc = "group"
    /\ i < Len(messages)
    /\ Contains(written[1][i + 1].message, MediaMarker)
    /\ contains_link(written[1][i + 1].message)

\* C3: a message with both a media marker and a URL is dropped when
\* filter_media is set; otherwise dropped when filter_links is set, also
\* after media_replacement has been applied; otherwise, with both
\* replacements configured, its final body is link_replacement.
C3_IndependentPolicies ==
    [][AtMediaAndLink =>
          /\ opts.filter_media =>
                KeptCount(blocks', current_block') = KeptCount(blocks, current_block)
          /\ (~opts.filter_media /\ opts.filter_links) =>
                KeptCount(blocks', current_block') = KeptCount(blocks, current_block)
          /\ (/\ ~opts.filter_media /\ ~opts.filter_links
              /\ opts.media_replacement # <<>> /\ opts.link_replacement # <<>>) =>
                /\ KeptCount(blocks', current_block')
                     = KeptCount(blocks, current_block) + 1
                /\ current_block'[Len(current_block')].message = opts.link_replacement
      ]_vars

\* What the code does: the link policy is evaluated on the body the media
\* policy leaves, so once media_replacement (which holds no URL) has been
\* applied, the message is kept with the body media_replacement, whatever
\* filter_links and link_replacement are.
C3_LinkPolicyAfterMedia ==
    [][AtMediaAndLink =>
          /\ opts.filter_media =>
                KeptCount(blocks', current_block') = KeptCount(blocks, current_block)
          /\ (~opts.filter_media /\ opts.media_replacement # <<>>) =>
                /\ KeptCount(blocks', current_block')
                     = KeptCount(blocks, current_block) + 1
                /\ current_block'[Len(current_block')].message = opts.media_replacement
          /\ (~opts.filter_media /\ opts.media_replacement = <<>> /\ opts.filter_links) =>
                KeptCount(blocks', current_block') = KeptCount(blocks, current_block)
          /\ (/\ ~opts.filter_media /\ opts.media_replacement = <<>>
              /\ ~opts.filter_links /\ opts.link_replacement # <<>>) =>
                current_block'[Len(current_block')].message = opts.link_replacement
      ]_vars

----------------------------------------------------------------------------
(* Lists of blocks, as arguments.                                          *)

Speakers == {<<"A">>, <<"B">>, <<"C">>}

\* Messages of the given speakers; the text of the k-th is the digit k, so
\* that every message of a list is told from the others.
NumberedMessages(us) ==
    [k \in 1..Len(us) |->
        [timestamp |-> Clock(0), username |-> us[k],
         message |-> <<(<<"1", "2", "3", "4", "5", "6", "7", "8", "9">>)[k]>>]]

\* The list q cut into blocks after each position of the set cuts.
RECURSIVE CutInto(_, _)
CutInto(q, cuts) ==
    IF q = <<>> THEN <<>>
    ELSE IF cuts = {} THEN <<q>>
    ELSE LET c == Min(cuts)
         IN  <<SubSeq(q, 1, c)>>
             \o CutInto(SubSeq(q, c + 1, Len(q)), {x - c : x \in cuts \ {c}})

\* Every list of non-empty blocks that holds at most MaxTotal messages.
BlockLists ==
    {CutInto(NumberedMessages(us), cuts) :
        <<us, cuts>> \in UNION {{<<u, c>> : c \in SUBSET (1..(Len(u) - 1))} :
                                 u \in BoundedSeq(Speakers, MaxTotal)}}

----------------------------------------------------------------------------
(* SpecFilter: filter_single_speaker_blocks.                               *)

\* Lines 142-143: whether a block is retained.
RetainsAnyOf(block, min_messages) ==
    LET speakers == {block[k].username : k \in 1..Len(block)}
    IN  Cardinality(speakers) >= 2 \/ Len(block) >= min_messages
Retains(block, min_messages) ==
    LET speakers == {block[k].username : k \in 1..Len(block)}
    IN  Cardinality(speakers) >= 2 /\ Len(block) >= min_messages

InitFilter ==
    /\ pc = "filter"
    /\ blocks \in BlockLists
    /\ opts \in [min_messages : 0..MaxMin]
    /\ filtered = <<>>
    /\ i = 0
    /\ IdleLine /\ IdleChat /\ IdleGroup /\ IdleFit /\ IdleJson
    /\ messages = <<>> /\ conversations = <<>>

\* One iteration of the loop over the blocks (lines 141-144).
FilterStep ==
    /\ pc = "filter"
    /\ i < Len(blocks)
    /\ filtered' = IF Retains(blocks[i + 1], opts.min_messages)
                   THEN Append(filtered, blocks[i + 1])
                   ELSE filtered
    /\ i' = i + 1
    /\ UNCHANGED <<pc, written, line, parsed, lines, current_message, messages,
                   opts, blocks, current_block, conversations, result,
                   conversations_copy, json_str, output_file>>

\* Line 146.
FilterReturn ==
    /\ pc = "filter"
    /\ i = Len(blocks)
    /\ pc' = "filter_done"
    /\ UNCHANGED <<written, line, parsed, lines, current_message, messages,
                   opts, i, blocks, current_block, filtered, conversations,
                   result, conversations_copy, json_str, output_file>>

NextFilter == FilterStep \/ FilterReturn

SpecFilter == InitFilter /\ [][NextFilter]_vars

\* The k-th smallest member of a set of numbers.
Kth(S, k) == CHOOSE j \in S : Cardinality({x \in S : x <= j}) = k

\* A block with two messages of different speakers and at least
\* min_messages messages.
Qualifies(b) ==
    /\ \E j, k \in 1..Len(b) : b[j].username # b[k].username
    /\ Len(b) >= opts.min_messages

\* C10: the result holds exactly the blocks with at least 2 distinct
\* speakers and at least min_messages messages, in their original order.
C10_FilterExact ==
    pc = "filter_done" =>
        LET Q == {j \in 1..Len(blocks) : Qualifies(blocks[j])}
        IN  /\ Len(filtered) = Cardinality(Q)
            /\ \A k \in 1..Len(filtered) : filtered[k] = blocks[Kth(Q, k)]

\* Of three blocks the first and the third are retained, each with two
\* speakers and exactly min_messages messages, and the second is dropped.
C10_Witness ==
    /\ pc = "filter_done"
    /\ Len(blocks) = 3
    /\ filtered = <<blocks[1], blocks[3]>>
    /\ opts.min_messages = 2
    /\ Len(blocks[1]) = 2 /\ Len(blocks[3]) = 2

----------------------------------------------------------------------------
(* SpecConvert: convert_to_json_format.                                    *)

UserKey ==
    <<"{", "{", "r", "a", "n", "d", "o", "m", "_", "u", "s", "e", "r", "_", "1", "}", "}">>
CharKey == <<"{", "{", "c", "h", "a", "r", "}", "}">>

\* Lines 160-171: the pairs and the keys seen after the messages of a block.
RECURSIVE ConvertMessages(_, _, _)
ConvertMessages(block, user_name, char_name) ==
    IF block = <<>> THEN [conversation |-> <<>>, speakers_present |-> {}]
    ELSE LET msg  == block[Len(block)]
             rest == ConvertMessages(SubSeq(block, 1, Len(block) - 1),
                                     user_name, char_name)
         IN  IF msg.username = user_name
             THEN [conversation |-> Append(rest.conversation, <<UserKey, msg.message>>),
                   speakers_present |-> rest.speakers_present \cup {UserKey}]
             ELSE IF msg.username = char_name
             THEN [conversation |-> Append(rest.conversation, <<CharKey, msg.message>>),
                   speakers_present |-> rest.speakers_present \cup {CharKey}]
             ELSE rest

\* Line 174: whether the conversation of a block is added to the result.
EmitsWithOneRole(c) == Cardinality(c.speakers_present) >= 1 /\ c.conversation # <<>>
Emits(c) == Cardinality(c.speakers_present) >= 2 /\ c.conversation # <<>>

InitConvert ==
    /\ pc = "convert"
    /\ blocks \in BlockLists
    /\ opts \in [user_name : {<<"A">>, <<"B">>}, char_name : {<<"A">>, <<"B">>}]
    /\ result = <<>>
    /\ i = 0
    /\ IdleLine /\ IdleChat /\ IdleGroup /\ IdleFilter /\ IdleJson
    /\ messages = <<>> /\ conversations = <<>> /\ conversations_copy = None

\* One iteration of the loop over the blocks (lines 156-175).
ConvertStep ==
    /\ pc = "convert"
    /\ i < Len(blocks)
    /\ LET c == ConvertMessages(blocks[i + 1], opts.user_name, opts.char_name)
       IN  result' = IF Emits(c) THEN Append(result, c.conversation) ELSE result
    /\ i' = i + 1
    /\ UNCHANGED <<pc, written, line, parsed, lines, current_message, messages,
                   opts, blocks, current_block, filtered, conversations,
                   conversations_copy, json_str, output_file>>

\* Line 177.
ConvertReturn ==
    /\ pc = "convert"
    /\ i = Len(blocks)
    /\ pc' = "convert_done"
    /\ UNCHANGED <<written, line, parsed, lines, current_message, messages,
                   opts, i, blocks, current_block, filtered, conversations,
                   result, conversations_copy, json_str, output_file>>

NextConvert == ConvertStep \/ ConvertReturn

SpecConvert == InitConvert /\ [][NextConvert]_vars

\* The messages of a block whose speaker is user_name or char_name.
OfNamedSpeakers(b) ==
    SelectSeq(b, LAMBDA m : m.username \in {opts.user_name, opts.char_name})

\* A block that yields both roles: it has a message that maps to the user
\* role and a message that maps to the character role.
YieldsBothRoles(b) ==
    /\ opts.user_name # opts.char_name
    /\ \E j, k \in 1..Len(b) :
          b[j].username = opts.user_name /\ b[k].username = opts.char_name

\* Conversation c is block b reduced to its named speakers, in order.
ConversationOf(c, b) ==
    LET named == OfNamedSpeakers(b)
    IN  /\ Len(c) = Len(named)
        /\ \A k \in 1..Len(c) :
              /\ c[k][2] = named[k].message
              /\ c[k][1] = UserKey => named[k].username = opts.user_name
              /\ c[k][1] = CharKey => named[k].username = opts.char_name

\* C6: every Conversation holds a user pair and a character pair, holds a
\* pair exactly for the messages of user_name and char_name in the block's
\* order, and the Conversations are those of the blocks that yield both roles.
C6_BothRolesOnly ==
    pc = "convert_done" =>
        LET Q == {j \in 1..Len(blocks) : YieldsBothRoles(blocks[j])}
        IN  /\ Len(result) = Cardinality(Q)
            /\ \A k \in 1..Len(result) :
                  /\ \E p \in 1..Len(result[k]) : result[k][p][1] = UserKey
                  /\ \E p \in 1..Len(result[k]) : result[k][p][1] = CharKey
                  /\ \A p \in 1..Len(result[k]) : result[k][p][1] \in {UserKey, CharKey}
                  /\ ConversationOf(result[k], blocks[Kth(Q, k)])

\* A block with a third speaker between the two named ones gives a
\* Conversation of two pairs, and a block with one role only gives none.
C6_Witness ==
    /\ pc = "convert_done"
    /\ Len(blocks) = 2
    /\ Len(blocks[1]) = 3 /\ blocks[1][2].username = <<"C">>
    /\ Len(result) = 1 /\ Len(result[1]) = 2
    /\ OfNamedSpeakers(blocks[2]) # <<>>

----------------------------------------------------------------------------
(* serialize_to_json_with_duplicate_keys.                                  *)

\* The escapes json.dumps writes: of the quote, of the backslash and of
\* every character below U+0020, by its letter or as \u00xx.
Hex == <<"0", "1", "2", "3", "4", "5", "6", "7", "8", "9", "a", "b", "c", "d", "e", "f">>
UEscape(hi, lo) == <<"\\", "u", "0", "0", Hex[hi + 1], Hex[lo + 1]>>
Escapes ==
    ("\"" :> <<"\\", "\"">>) @@ ("\\" :> <<"\\", "\\">>)
    @@ ("\n" :> <<"\\", "n">>) @@ ("\r" :> <<"\\", "r">>) @@ ("\t" :> <<"\\", "t">>)
    @@ ("\f" :> <<"\\", "f">>) @@ ("U+0008" :> <<"\\", "b">>)
    @@ ("U+0000" :> UEscape(0, 0)) @@ ("U+0001" :> UEscape(0, 1))
    @@ ("U+0002" :> UEscape(0, 2)) @@ ("U+0003" :> UEscape(0, 3))
    @@ ("U+0004" :> UEscape(0, 4)) @@ ("U+0005" :> UEscape(0, 5))
    @@ ("U+0006" :> UEscape(0, 6)) @@ ("U+0007" :> UEscape(0, 7))
    @@ ("U+000B" :> UEscape(0, 11)) @@ ("U+000E" :> UEscape(0, 14))
    @@ ("U+000F" :> UEscape(0, 15)) @@ ("U+0010" :> UEscape(1, 0))
    @@ ("U+0011" :> UEscape(1, 1)) @@ ("U+0012" :> UEscape(1, 2))
    @@ ("U+0013" :> UEscape(1, 3)) @@ ("U+0014" :> UEscape(1, 4))
    @@ ("U+0015" :> UEscape(1, 5)) @@ ("U+0016" :> UEscape(1, 6))
    @@ ("U+0017" :> UEscape(1, 7)) @@ ("U+0018" :> UEscape(1, 8))
    @@ ("U+0019" :> UEscape(1, 9)) @@ ("U+001A" :> UEscape(1, 10))
    @@ ("U+001B" :> UEscape(1, 11)) @@ ("U+001C" :> UEscape(1, 12))
    @@ ("U+001D" :> UEscape(1, 13)) @@ ("U+001E" :> UEscape(1, 14))
    @@ ("U+001F" :> UEscape(1, 15))

\* json.dumps(value, ensure_ascii=False), character by character: a
\* character with an escape is written as its escape, every other
\* character as it is.
EscapeChar(c) == IF c \in DOMAIN Escapes THEN Escapes[c] ELSE <<c>>
JsonDumps(value) ==
    <<"\"">> \o Concat([k \in 1..Len(value) |-> EscapeChar(value[k])]) \o <<"\"">>

\* Line 196: whether entry j of n gets a comma.
CommaAfterEvery(j, n) == j <= n
CommaAfter(j, n) == j < n

\* Lines 190-199: the lines of the entries of one conversation.
EntryLines(conv) ==
    [j \in 1..Len(conv) |->
        <<" ", " ", " ", " ", " ", " ", "\"">> \o conv[j][1] \o <<"\"", ":", " ">>
        \o JsonDumps(conv[j][2])
        \o (IF CommaAfter(j, Len(conv)) THEN <<",">> ELSE <<>>)]

\* Lines 188-205: the lines of conversation k of the list.
ObjectLines(convs, k) ==
    << <<" ", " ", " ", " ", "{">> >>
    \o EntryLines(convs[k])
    \o << (IF k < Len(convs) THEN <<" ", " ", " ", " ", "}", ",">>
                             ELSE <<" ", " ", " ", " ", "}">>) >>

\* Lines 184-208: the list `lines`.
SerializeLines(convs) ==
    << <<"{">>,
       <<" ", " ", "\"", "e", "x", "a", "m", "p", "l", "e", "_", "c", "o", "n", "v",
         "e", "r", "s", "a", "t", "i", "o", "n", "\"", ":", " ", "[">> >>
    \o Concat([k \in 1..Len(convs) |-> ObjectLines(convs, k)])
    \o << <<" ", " ", "]">>, <<"}">> >>

\* '\n'.join(lines)
RECURSIVE JoinLines(_)
JoinLines(ls) ==
    IF ls = <<>> THEN <<>>
    ELSE IF Len(ls) = 1 THEN ls[1]
    ELSE ls[1] \o <<"\n">> \o JoinLines(Tail(ls))

serialize_to_json_with_duplicate_keys(convs) == JoinLines(SerializeLines(convs))

----------------------------------------------------------------------------
(* SpecSerialize: serialize_to_json_with_duplicate_keys on lists of        *)
(* conversations with repeated keys and with values that need escaping.    *)

Values == {<<"a">>, <<"\"", "b">>, <<"\\", "\n">>, <<"\f", "U+001F", "U+00A0">>}

\* Every list of non-empty conversations that holds at most MaxPairs pairs.
ConversationLists ==
    {CutInto(q, cuts) :
        <<q, cuts>> \in UNION {{<<u, c>> : c \in SUBSET (1..(Len(u) - 1))} :
                                u \in BoundedSeq({UserKey, CharKey} \X Values, MaxPairs)}}

InitSerialize ==
    /\ pc = "json"
    /\ conversations \in ConversationLists
    /\ json_str = <<>>
    /\ output_file = None
    /\ IdleLine /\ IdleChat /\ IdleGroup /\ IdleFilter /\ IdleFit
    /\ messages = <<>> /\ opts = <<>> /\ i = 0 /\ blocks = <<>>

Serialize ==
    /\ pc = "json"
    /\ json_str' = serialize_to_json_with_duplicate_keys(conversations)
    /\ pc' = "json_done"
    /\ UNCHANGED <<written, line, parsed, lines, current_message, messages,
                   opts, i, blocks, current_block, filtered, conversations,
                   result, conversations_copy, output_file>>

NextSerialize == Serialize

SpecSerialize == InitSerialize /\ [][NextSerialize]_vars

(* A reader of the emitted text, which keeps every entry of an object in   *)
(* file order (duplicate keys included) and rejects a missing or a         *)
(* trailing comma.                                                         *)

\* The lines of a text.
RECURSIVE SplitLines(_)
SplitLines(text) ==
    LET breaks == {p \in 1..Len(text) : text[p] = "\n"}
    IN  IF breaks = {} THEN <<text>>
        ELSE <<SubSeq(text, 1, Min(breaks) - 1)>>
             \o SplitLines(SubSeq(text, Min(breaks) + 1, Len(text)))

\* The character whose escape stands at position p.
Escaped(s, p) == CHOOSE c \in DOMAIN Escapes : StartsAt(s, p, Escapes[c])

\* A JSON string read from position p, which follows its opening quote:
\* None, or its value and the position after its closing quote.
RECURSIVE ReadString(_, _, _)
ReadString(s, p, acc) ==
    IF p > Len(s) THEN None
    ELSE IF s[p] = "\"" THEN Some([value |-> acc, p |-> p + 1])
    ELSE IF s[p] = "\\"
         THEN IF \E c \in DOMAIN Escapes : StartsAt(s, p, Escapes[c])
              THEN ReadString(s, p + Len(Escapes[Escaped(s, p)]),
                              Append(acc, Escaped(s, p)))
              ELSE None
    ELSE IF s[p] \in DOMAIN Escapes THEN None
    ELSE ReadString(s, p + 1, Append(acc, s[p]))

\* The value of an entry, after its key: ': "value"' and maybe a comma.
ReadValue(s, key) ==
    IF key = None \/ ~StartsAt(s, key[1].p, <<":", " ", "\"">>) THEN None ELSE
    LET v == ReadString(s, key[1].p + 3, <<>>)
    IN  IF v = None THEN None
        ELSE IF v[1].p = Len(s) + 1
             THEN Some([pair |-> <<key[1].value, v[1].value>>, comma |-> FALSE])
        ELSE IF v[1].p = Len(s) /\ s[Len(s)] = ","
             THEN Some([pair |-> <<key[1].value, v[1].value>>, comma |-> TRUE])
        ELSE None

\* An entry line '"key": "value"' or '"key": "value",'.
ReadEntry(l) ==
    IF At(Strip(l), 1) # "\"" THEN None
    ELSE ReadValue(Strip(l), ReadString(Strip(l), 2, <<>>))

\* The entries of an object from line k on, up to its closing line; need
\* is "first", "more" (after a comma) or "end" (after an entry without one).
RECURSIVE ReadEntries(_, _, _, _)
ReadEntries(ls, k, acc, need) ==
    IF k > Len(ls) THEN None
    ELSE IF Strip(ls[k]) \in {<<"}">>, <<"}", ",">>}
         THEN IF need = "more" THEN None ELSE Some([pairs |-> acc, k |-> k])
    ELSE IF need = "end" \/ ReadEntry(ls[k]) = None THEN None
    ELSE ReadEntries(ls, k + 1, Append(acc, ReadEntry(ls[k])[1].pair),
                     IF ReadEntry(ls[k])[1].comma THEN "more" ELSE "end")

\* The objects of the array from line k on, up to the end of the text.
RECURSIVE ReadObjects(_, _, _, _)
ReadObjects(ls, k, acc, need) ==
    IF k > Len(ls) THEN None
    ELSE IF Strip(ls[k]) = <<"]">>
         THEN IF need # "more" /\ k + 1 = Len(ls) /\ Strip(ls[k + 1]) = <<"}">>
              THEN Some(acc) ELSE None
    ELSE IF need = "end" \/ Strip(ls[k]) # <<"{">>
              \/ ReadEntries(ls, k + 1, <<>>, "first") = None
         THEN None
    ELSE ReadObjects(ls, ReadEntries(ls, k + 1, <<>>, "first")[1].k + 1,
                     Append(acc, ReadEntries(ls, k + 1, <<>>, "first")[1].pairs),
                     IF Strip(ls[ReadEntries(ls, k + 1, <<>>, "first")[1].k]) = <<"}", ",">>
                     THEN "more" ELSE "end")

\* The conversations read back from a text: None when it is malformed.
ReadBack(text) ==
    IF /\ Len(SplitLines(text)) >= 4
       /\ SplitLines(text)[1] = <<"{">>
       /\ Strip(SplitLines(text)[2])
            = <<"\"", "e", "x", "a", "m", "p", "l", "e", "_", "c", "o", "n", "v", "e",
                "r", "s", "a", "t", "i", "o", "n", "\"", ":", " ", "[">>
    THEN ReadObjects(SplitLines(text), 3, <<>>, "first")
    ELSE None

\* C9: the text holds one object per Conversation in list order and one
\* entry per pair in pair order, separated by commas with none trailing:
\* reading the entries back in file order gives the original pairs,
\* duplicate keys included.
C9_RoundTrip ==
    pc = "json_done" => ReadBack(json_str) = Some(conversations)

\* Two conversations, the first with the same key twice and a value that
\* holds a quote.
C9_Witness ==
    /\ pc = "json_done"
    /\ Len(conversations) = 2
    /\ Len(conversations[1]) = 2
    /\ conversations[1][1][1] = conversations[1][2][1]
    /\ conversations[1][1][2] = <<"\"", "b">>
    /\ ReadBack(json_str) = Some(conversations)

----------------------------------------------------------------------------
(* SpecFit: fit_to_character_limit.                                        *)

\* Lines 224-226 and 243-245: whether the tentative selection is within
\* the limit.
FitsStrictly(test_result, character_limit) ==
    Len(serialize_to_json_with_duplicate_keys(test_result)) < character_limit
Fits(test_result, character_limit) ==
    Len(serialize_to_json_with_duplicate_keys(test_result)) <= character_limit

\* A short and a longer Conversation.
ShortConversation == << <<UserKey, <<"a">>>>, <<CharKey, <<"b">>>> >>
LongConversation  == << <<UserKey, <<"a">>>>, <<CharKey, <<"b">>>>, <<CharKey, <<"c">>>> >>

\* random.shuffle: every order of the list.
Shuffles(q) ==
    {[k \in 1..Len(q) |-> q[f[k]]] :
        f \in {g \in [1..Len(q) -> 1..Len(q)] :
                 \A a, b \in 1..Len(q) : a # b => g[a] # g[b]}}

InitFit ==
    /\ pc = "phase1"
    /\ conversations \in BoundedSeq({ShortConversation, LongConversation}, MaxConvs)
    /\ opts \in [character_limit : 0..MaxLimit]
    /\ result = <<>>
    /\ conversations_copy = None
    /\ i = 0
    /\ IdleLine /\ IdleChat /\ IdleGroup /\ IdleFilter /\ IdleJson
    /\ messages = <<>> /\ blocks = <<>>

FitUnchanged ==
    UNCHANGED <<written, line, parsed, lines, current_message, messages, opts,
                blocks, current_block, filtered, conversations, json_str,
                output_file>>

\* Lines 222-227: phase 1 appends the next conversation.
Phase1Accept ==
    /\ pc = "phase1"
    /\ i < Len(conversations)
    /\ Fits(Append(result, conversations[i + 1]), opts.character_limit)
    /\ result' = Append(result, conversations[i + 1])
    /\ i' = i + 1
    /\ UNCHANGED <<pc, conversations_copy>>
    /\ FitUnchanged

\* Lines 228-229: phase 1 stops at the first conversation that does not fit.
Phase1Break ==
    /\ pc = "phase1"
    /\ i < Len(conversations)
    /\ ~Fits(Append(result, conversations[i + 1]), opts.character_limit)
    /\ pc' = "check"
    /\ UNCHANGED <<result, i, conversations_copy>>
    /\ FitUnchanged

\* Line 222: phase 1 has gone through every conversation.
Phase1End ==
    /\ pc = "phase1"
    /\ i = Len(conversations)
    /\ pc' = "check"
    /\ UNCHANGED <<result, i, conversations_copy>>
    /\ FitUnchanged

\* Lines 232-233: phase 1 took every conversation.
ReturnSequential ==
    /\ pc = "check"
    /\ Len(result) = Len(conversations)
    /\ pc' = "fit_done"
    /\ UNCHANGED <<result, i, conversations_copy>>
    /\ FitUnchanged

\* Lines 236-239: the copy is shuffled and the selection emptied.
Shuffle ==
    /\ pc = "check"
    /\ Len(result) < Len(conversations)
    /\ \E order \in Shuffles(conversations) : conversations_copy' = Some(order)
    /\ result' = <<>>
    /\ i' = 0
    /\ pc' = "phase2"
    /\ FitUnchanged

\* Lines 241-246: phase 2 appends the next conversation of the copy.
Phase2Accept ==
    /\ pc = "phase2"
    /\ i < Len(conversations_copy[1])
    /\ Fits(Append(result, conversations_copy[1][i + 1]), opts.character_limit)
    /\ result' = Append(result, conversations_copy[1][i + 1])
    /\ i' = i + 1
    /\ UNCHANGED <<pc, conversations_copy>>
    /\ FitUnchanged

\* Lines 241 and 247-250: phase 2 leaves its loop, at the first conversation
\* of the copy that does not fit or, were there none, at the end of the
\* copy.  (The length of a serialization does not depend on the order of the
\* conversations, so after phase 1 has stopped early the whole copy never
\* fits and the loop always leaves through the break.)
Phase2Exit ==
    /\ pc = "phase2"
    /\ IF i < Len(conversations_copy[1])
       THEN ~Fits(Append(result, conversations_copy[1][i + 1]),
                  opts.character_limit)
       ELSE TRUE
    /\ pc' = "fit_done"
    /\ UNCHANGED <<result, i, conversations_copy>>
    /\ FitUnchanged

NextFit ==
    \/ Phase1Accept \/ Phase1Break \/ Phase1End
    \/ ReturnSequential \/ Shuffle
    \/ Phase2Accept \/ Phase2Exit

SpecFit == InitFit /\ [][NextFit]_vars

\* The length of the text a selection is serialized to.
SerializedLength(sel) == Len(serialize_to_json_with_duplicate_keys(sel))

\* C1: the returned selection, serialized, is never longer than
\* character_limit, for every limit, also one below the length of the
\* serialization of the empty selection.
C1_WithinBudget ==
    pc = "fit_done" => SerializedLength(result) <= opts.character_limit

\* A Conversation that exceeds the limit on its own.
Oversize(c) == SerializedLength(<<c>>) > opts.character_limit
SomeOversize == \E k \in 1..Len(conversations) : Oversize(conversations[k])

\* C2: if some Conversation of the input exceeds the limit on its own, the
\* result is the empty selection.
C2_OversizeGivesEmpty ==
    (pc = "fit_done" /\ SomeOversize) => result = <<>>

\* C2, in the form the code satisfies: if some Conversation of the input
\* exceeds the limit on its own, phase 2 runs, and the result is the empty
\* selection exactly when the Conversation the shuffle puts first exceeds
\* the limit on its own.
C2_OversizeFirstGivesEmpty ==
    (pc = "fit_done" /\ SomeOversize) =>
        /\ conversations_copy # None
        /\ result = <<>> <=> Oversize(conversations_copy[1][1])

\* An oversize Conversation shuffled to the front of one that fits: the
\* result is empty.
C2_Witness ==
    /\ pc = "fit_done"
    /\ SomeOversize
    /\ \E k \in 1..Len(conversations) : ~Oversize(conversations[k])
    /\ conversations_copy # None
    /\ Oversize(conversations_copy[1][1])
    /\ ~Oversize(conversations[1])
    /\ result = <<>>

\* Phase 1 accepts every Conversation: each prefix of the input fits.
Phase1AcceptsAll ==
    \A k \in 1..Len(conversations) :
       SerializedLength(SubSeq(conversations, 1, k)) <= opts.character_limit

\* r is the longest prefix of order whose serialization fits the limit.
LongestFittingPrefix(r, order) ==
    \E k \in 0..Len(order) :
       /\ r = SubSeq(order, 1, k)
       /\ SerializedLength(r) <= opts.character_limit
       /\ k < Len(order) =>
             SerializedLength(SubSeq(order, 1, k + 1)) > opts.character_limit

\* C5: if phase 1 accepts every Conversation, no shuffle is made and the
\* result is the input in its order; otherwise the result is the longest
\* prefix of the shuffled order whose serialization fits the limit.
C5_PhaseOrder ==
    pc = "fit_done" =>
        /\ Phase1AcceptsAll =>
              (conversations_copy = None /\ result = conversations)
        /\ ~Phase1AcceptsAll =>
              /\ conversations_copy # None
              /\ LongestFittingPrefix(result, conversations_copy[1])

\* What the code does: C5 holds whenever the limit admits the
\* serialization of the empty selection, and below that the result of
\* phase 2 is the empty selection, which does not fit.
C5_WhenEmptyFits ==
    pc = "fit_done" =>
        /\ SerializedLength(<<>>) <= opts.character_limit => C5_PhaseOrder
        /\ SerializedLength(<<>>) > opts.character_limit => result = <<>>
        /\ SerializedLength(<<>>) <= opts.character_limit => C1_WithinBudget

----------------------------------------------------------------------------
(* SpecGenerate: generate_conversation_json, from the text of the input    *)
(* file to the text written to the output file.  Each function runs by its *)
(* own actions, on what the function before it has returned.               *)

\* The line 'M/D/YY, H:MM PM - <speaker>: <text>' of 1/2/21 at 1 or 3 PM.
HeaderLine(hour, minute, speaker, text) ==
    <<"1", "/", "2", "/", "2", "1", ",", " ", hour, ":", "0", minute, " ", "P", "M",
      " ", "-", " ", speaker, ":", " ">> \o text

\* Lines of a transcript: two exchanges of A and B two hours apart, a
\* media message and a continuation.
FileLines ==
    {HeaderLine("1", "5", "A", <<"a">>), HeaderLine("1", "6", "B", <<"b">>),
     HeaderLine("3", "5", "A", <<"x">>), HeaderLine("3", "6", "B", <<"y">>),
     HeaderLine("3", "7", "B", MediaMarker), <<"m", "o", "r", "e">>}

\* The arguments: a limit below the serialization of the empty selection,
\* limits that admit one and every conversation, both media policies.
GenerateOpts ==
    [split_minutes : {10}, character_limit : {34, 110, 1000},
     filter_media : BOOLEAN, filter_links : {TRUE},
     user_name : {<<"A">>}, char_name : {<<"B">>}, min_messages : {2},
     media_replacement : {<<"<", "a", "t", "t", ">">>}, link_replacement : {<<>>}]

\* Lines 277 and 37-42: parse_whatsapp_chat(input_file) is called.
InitGenerate ==
    /\ pc = "chat"
    /\ \E ls \in BoundedSeq(FileLines, MaxFileLines) : written = Some(FileText(ls, TRUE))
    /\ opts \in GenerateOpts
    /\ lines = ReadLines(written[1])
    /\ current_message = None
    /\ messages = <<>>
    /\ i = 0
    /\ line = <<>> /\ parsed = None
    /\ IdleGroup /\ IdleFilter /\ IdleFit /\ IdleJson
    /\ blocks = <<>> /\ conversations = <<>>

\* Lines 281-282 and 85-86: group_by_time_gap is called on the messages.
GroupMessages ==
    /\ pc = "chat_done"
    /\ pc' = "group"
    /\ i' = 0
    /\ blocks' = <<>>
    /\ current_block' = <<>>
    /\ UNCHANGED <<written, line, parsed, lines, current_message, messages, opts,
                   filtered, conversations, result, conversations_copy, json_str,
                   output_file>>

\* Lines 287-288 and 139: filter_single_speaker_blocks is called on the
\* blocks group_by_time_gap has returned.
FilterBlocks ==
    /\ pc = "group_done"
    /\ pc' = "filter"
    /\ i' = 0
    /\ filtered' = <<>>
    /\ UNCHANGED <<written, line, parsed, lines, current_message, messages, opts,
                   blocks, current_block, conversations, result,
                   conversations_copy, json_str, output_file>>

\* Lines 287, 292 and 154: the blocks become the filtered ones, and
\* convert_to_json_format is called on them.
ConvertBlocks ==
    /\ pc = "filter_done"
    /\ blocks' = filtered
    /\ pc' = "convert"
    /\ i' = 0
    /\ result' = <<>>
    /\ UNCHANGED <<written, line, parsed, lines, current_message, messages, opts,
                   current_block, filtered, conversations, conversations_copy,
                   json_str, output_file>>

\* Lines 292, 296 and 220: the conversations are those convert_to_json_format
\* has returned, and fit_to_character_limit is called on them.
FitConversations ==
    /\ pc = "convert_done"
    /\ conversations' = result
    /\ pc' = "phase1"
    /\ i' = 0
    /\ result' = <<>>
    /\ conversations_copy' = None
    /\ UNCHANGED <<written, line, parsed, lines, current_message, messages, opts,
                   blocks, current_block, filtered, json_str, output_file>>

\* Lines 296 and 300: the conversations become the selection
\* fit_to_character_limit has returned, and the serializer is called on them.
SerializeSelection ==
    /\ pc = "fit_done"
    /\ conversations' = result
    /\ pc' = "json"
    /\ UNCHANGED <<written, line, parsed, lines, current_message, messages, opts,
                   i, blocks, current_block, filtered, result, conversations_copy,
                   json_str, output_file>>

\* Lines 303-304: the text is written to the output file.
WriteOutput ==
    /\ pc = "json_done"
    /\ output_file' = Some(json_str)
    /\ pc' = "done"
    /\ UNCHANGED <<written, line, parsed, lines, current_message, messages, opts,
                   i, blocks, current_block, filtered, conversations, result,
                   conversations_copy, json_str>>

NextGenerate ==
    \/ NextChat \/ GroupMessages
    \/ NextGroup \/ FilterBlocks
    \/ NextFilter \/ ConvertBlocks
    \/ NextConvert \/ FitConversations
    \/ NextFit \/ SerializeSelection
    \/ NextSerialize \/ WriteOutput

SpecGenerate == InitGenerate /\ [][NextGenerate]_vars

====
